---- MODULE Spec2Model ----
(***************************************************************************)
(* Model of the proxy rotation manager (proxy_manager.py) and of the       *)
(* rotating fetch loop SmartRetailScraper.fetch_page                       *)
(* (scraper_with_auto_proxy.py).                                           *)
(*                                                                         *)
(* Time is in seconds, as datetime.now() / time.sleep() see it.  A proxy   *)
(* is identified by its position in ProxyRotationManager.proxies; 0 stands *)
(* for None (no proxy / direct connection), NoneT for a None timestamp.    *)
(***************************************************************************)
EXTENDS Integers, Sequences, FiniteSets, TLC

VARIABLES
    proxies,        \* ProxyRotationManager.proxies: Seq of ProxyInfo
    current_proxy,  \* ProxyRotationManager.current_proxy (0 = None)
    proxy_manager,  \* SmartRetailScraper.proxy_manager is not None
    auto_rotate,    \* SmartRetailScraper.auto_rotate
    stats,          \* SmartRetailScraper.stats
    now,            \* the clock read by datetime.now()
    pc,             \* position of fetch_page: idle, loop, requesting, done
    retries,        \* local retries of fetch_page
    max_retries,    \* argument max_retries of fetch_page (after defaulting)
    last_error,     \* local last_error of fetch_page
    result,         \* value returned by the last finished fetch_page
    term,           \* which return statement ended the last fetch_page
    routed,         \* proxy the last request was routed through (0 = direct)
    response,       \* outcome of the last session.get
    penalized,      \* proxy mark_proxy_failed acted on in the last attempt
    new_proxy,      \* value handle_block returned in the last attempt
    sent,           \* requests issued by the running fetch_page call
    call,           \* the last call made on the manager or a detector from
                    \* outside fetch_page: operation, arguments, return value
    block_detected, \* ProxyRotationManager.block_detected
    logger          \* the ExperimentLogger: current_experiment (<<>> = None,
                    \* else <<the experiment>>) and results

vars == <<proxies, current_proxy, proxy_manager, auto_rotate, stats, now, pc,
          retries, max_retries, last_error, result, term, routed, response,
          penalized, new_proxy, sent, call, block_detected, logger>>

----------------------------------------------------------------------------
(* Bounds of the model *)
MaxProxies == 2
MaxRequests == 4

(* Program constants *)
MAX_RETRIES == 3
RETRY_DELAY == 5
MIN_DELAY == 2
MAX_DELAY == 5
REQUEST_TIMEOUT == 30
max_failures == 3
cooldown_time == 300
NoneT == -1

----------------------------------------------------------------------------
(* Response bodies.  A body is a sequence of phrases, each written in some *)
(* letter case, followed by `filler` characters that match no phrase.      *)

Lower(s) ==
    CASE s = "CAPTCHA" -> "captcha"
      [] s = "CaptCha" -> "captcha"
      [] s = "Access Denied" -> "access denied"
      [] s = "Please Verify" -> "please verify"
      [] s = "Forbidden" -> "forbidden"
      [] OTHER -> s

StrLen(s) ==
    CASE Lower(s) = "captcha" -> 7
      [] Lower(s) = "access denied" -> 13
      [] Lower(s) = "please verify" -> 13
      [] Lower(s) = "forbidden" -> 9
      [] OTHER -> 0

RECURSIVE SumLen(_)
SumLen(text) ==
    IF text = <<>> THEN 0 ELSE StrLen(Head(text)) + SumLen(Tail(text))

\* the text taken as it is, without lower()
LowerText_AsIs(body) == body

\* response.text.lower()
LowerText(body) ==
    [text |-> [i \in DOMAIN body.text |-> Lower(body.text[i])],
     filler |-> body.filler]

\* len(content)
BodyLen(body) == SumLen(body.text) + body.filler

\* pattern in content
Contains(content, pattern) ==
    \E i \in DOMAIN content.text : content.text[i] = pattern

EmptyBody == [text |-> <<>>, filler |-> 0]
PageBody == [text |-> <<>>, filler |-> 1200]
ShortBody == [text |-> <<>>, filler |-> 499]
CaptchaBody == [text |-> <<"CAPTCHA">>, filler |-> 1193]
VerifyBody == [text |-> <<"Please Verify">>, filler |-> 1187]

FetchBodies == {PageBody, ShortBody, CaptchaBody}
FetchStatuses == {200, 403, 429, 404, 500}

HttpResponse(s, b) == [kind |-> "http", status |-> s, body |-> b]
ErrorResponse(k) == [kind |-> k, status |-> 0, body |-> EmptyBody]
NoResponse == ErrorResponse("none")

\* the responses the target site gives in the model: every status with a
\* full page, and the statuses that are no block by themselves with a short
\* page and with a captcha page
FetchResponses ==
    {HttpResponse(s, PageBody) : s \in FetchStatuses}
        \cup {HttpResponse(s, b) : s \in {200, 404}, b \in FetchBodies}
FetchErrors == {"Timeout", "ConnectionError", "Exception"}

----------------------------------------------------------------------------
(* SmartRetailScraper._check_if_blocked *)

block_indicators ==
    {"access denied", "blocked", "captcha", "cloudflare", "security check",
     "rate limit", "too many requests", "bot detection",
     "suspicious activity", "unusual traffic", "please verify",
     "challenge-platform"}

CheckIfBlocked(resp) ==
    IF resp.status \in {403, 429, 503} THEN TRUE
    ELSE LET content == LowerText(resp.body)
         IN  \E indicator \in block_indicators : Contains(content, indicator)

----------------------------------------------------------------------------
(* BlockDetector.is_blocked: (is_blocked, reason) *)

BLOCK_STATUS_CODES == {403, 429, 503}

BLOCK_PATTERNS ==
    <<"access denied", "blocked", "captcha", "cloudflare", "security check",
      "rate limit", "too many requests", "bot detection",
      "suspicious activity">>

Reason(kind, status, pattern, length) ==
    [kind |-> kind, status |-> status, pattern |-> pattern, length |-> length]

\* the first pattern of BLOCK_PATTERNS found in content (0 = none)
FirstPattern(content) ==
    LET hits == {i \in DOMAIN BLOCK_PATTERNS :
                    Contains(content, BLOCK_PATTERNS[i])}
    IN  IF hits = {} THEN 0
        ELSE CHOOSE i \in hits : \A j \in hits : i <= j

\* is_blocked with the short-response rule tried before the pattern rule
IsBlocked_ShortFirst(resp) ==
    IF resp.status \in BLOCK_STATUS_CODES
    THEN [blocked |-> TRUE, reason |-> Reason("Status", resp.status, "", 0)]
    ELSE LET content == LowerText(resp.body)
             hit == FirstPattern(content)
         IN  IF resp.status = 200 /\ BodyLen(content) < 500
             THEN [blocked |-> TRUE,
                   reason |-> Reason("Suspicious short response", 0, "",
                                     BodyLen(content))]
             ELSE IF hit # 0
             THEN [blocked |-> TRUE,
                   reason |-> Reason("Pattern", 0, BLOCK_PATTERNS[hit], 0)]
             ELSE [blocked |-> FALSE, reason |-> Reason("OK", 0, "", 0)]

\* is_blocked whose short-response rule still fires at 500 characters
IsBlocked_ShortInclusive(resp) ==
    IF resp.status \in BLOCK_STATUS_CODES
    THEN [blocked |-> TRUE, reason |-> Reason("Status", resp.status, "", 0)]
    ELSE LET content == LowerText(resp.body)
             hit == FirstPattern(content)
         IN  IF hit # 0
             THEN [blocked |-> TRUE,
                   reason |-> Reason("Pattern", 0, BLOCK_PATTERNS[hit], 0)]
             ELSE IF resp.status = 200 /\ BodyLen(content) <= 500
             THEN [blocked |-> TRUE,
                   reason |-> Reason("Suspicious short response", 0, "",
                                     BodyLen(content))]
             ELSE [blocked |-> FALSE, reason |-> Reason("OK", 0, "", 0)]

\* is_blocked with the pattern rule tried before the status rule
IsBlocked_PatternFirst(resp) ==
    LET content == LowerText(resp.body)
        hit == FirstPattern(content)
    IN  IF hit # 0
        THEN [blocked |-> TRUE,
              reason |-> Reason("Pattern", 0, BLOCK_PATTERNS[hit], 0)]
        ELSE IF resp.status \in BLOCK_STATUS_CODES
        THEN [blocked |-> TRUE, reason |-> Reason("Status", resp.status, "", 0)]
        ELSE IF resp.status = 200 /\ BodyLen(content) < 500
        THEN [blocked |-> TRUE,
              reason |-> Reason("Suspicious short response", 0, "",
                                BodyLen(content))]
        ELSE [blocked |-> FALSE, reason |-> Reason("OK", 0, "", 0)]

IsBlocked(resp) ==
    IF resp.status \in BLOCK_STATUS_CODES
    THEN [blocked |-> TRUE, reason |-> Reason("Status", resp.status, "", 0)]
    ELSE LET content == LowerText(resp.body)
             hit == FirstPattern(content)
         IN  IF hit # 0
             THEN [blocked |-> TRUE,
                   reason |-> Reason("Pattern", 0, BLOCK_PATTERNS[hit], 0)]
             ELSE IF resp.status = 200 /\ BodyLen(content) < 500
             THEN [blocked |-> TRUE,
                   reason |-> Reason("Suspicious short response", 0, "",
                                     BodyLen(content))]
             ELSE [blocked |-> FALSE, reason |-> Reason("OK", 0, "", 0)]

----------------------------------------------------------------------------
(* ProxyRotationManager.detect_block *)

block_patterns ==
    {"access denied", "blocked", "captcha", "cloudflare", "security check",
     "rate limit", "too many requests", "forbidden", "bot detection"}

\* the value returned, which is also the value left in block_detected
DetectBlock(resp) ==
    IF resp.status \in {403, 429, 503} THEN TRUE
    ELSE LET content == LowerText(resp.body)
         IN  \E pattern \in block_patterns : Contains(content, pattern)

----------------------------------------------------------------------------
(* ProxyInfo and ProxyRotationManager *)

ProxyInfo ==
    [failures |-> 0, last_used |-> NoneT, last_failure |-> NoneT,
     response_time |-> 0, is_working |-> TRUE, blocked_until |-> NoneT]

\* a cooldown test that still skips a proxy at the instant blocked_until
IsWorking_CooldownInclusive(p, t) ==
    /\ ~(p.failures >= max_failures)
    /\ ~(p.blocked_until # NoneT /\ p.blocked_until >= t)
    /\ p.is_working

\* get_working_proxies: positions of the working proxies, in pool order
IsWorking(p, t) ==
    /\ ~(p.failures >= max_failures)
    /\ ~(p.blocked_until # NoneT /\ p.blocked_until > t)
    /\ p.is_working

\* get_working_proxies without the cooldown test
GetWorkingProxies_IgnoreCooldown(ps, t) ==
    SelectSeq([i \in 1..Len(ps) |-> i],
              LAMBDA i : ps[i].failures < max_failures /\ ps[i].is_working)

GetWorkingProxies(ps, t) ==
    SelectSeq([i \in 1..Len(ps) |-> i], LAMBDA i : IsWorking(ps[i], t))

\* the weight get_next_proxy gives a proxy, as a fraction num/den
Weight(p) ==
    IF p.response_time > 0
    THEN [num |-> 10, den |-> (1 + p.failures) * (10 + p.response_time)]
    ELSE [num |-> 1, den |-> 1 + p.failures]

Range(s) == {s[i] : i \in DOMAIN s}

\* sum(...) of a list of numbers
RECURSIVE Sum(_)
Sum(seq) == IF seq = <<>> THEN 0 ELSE Head(seq) + Sum(Tail(seq))

\* a selection that always takes the first working proxy
Drawable_First(ps, t) ==
    LET working == GetWorkingProxies(ps, t)
    IN  IF working = <<>> THEN {} ELSE {working[1]}

\* the proxies random.choices / random.choice can draw
Drawable(ps, t) ==
    LET working == GetWorkingProxies(ps, t)
        total_positive == \E i \in Range(working) : Weight(ps[i]).num > 0
    IN  IF total_positive
        THEN {i \in Range(working) : Weight(ps[i]).num > 0}
        ELSE Range(working)

\* a get_next_proxy that stamps last_used on every working proxy
GetNextProxy_StampAll(ps, cur, t) ==
    IF GetWorkingProxies(ps, t) = <<>>
    THEN {[proxies |-> ps, current_proxy |-> cur, ret |-> 0]}
    ELSE {[proxies |-> [j \in DOMAIN ps |->
                           IF IsWorking(ps[j], t)
                           THEN [ps[j] EXCEPT !.last_used = t] ELSE ps[j]],
           current_proxy |-> i, ret |-> i] : i \in Drawable(ps, t)}

\* get_next_proxy: every outcome (new pool, new current proxy, returned proxy)
GetNextProxy(ps, cur, t) ==
    IF GetWorkingProxies(ps, t) = <<>>
    THEN {[proxies |-> ps, current_proxy |-> cur, ret |-> 0]}
    ELSE {[proxies |-> [ps EXCEPT ![i].last_used = t],
           current_proxy |-> i, ret |-> i] : i \in Drawable(ps, t)}

\* the proxy mark_proxy_failed / mark_proxy_success act on (0 = none)
Target(cur, proxy) == IF proxy = 0 THEN cur ELSE proxy

\* mark_proxy_failed that applies the cooldown whatever the argument says
MarkProxyFailed_AlwaysCooldown(ps, cur, proxy, cooldown, t) ==
    LET i == Target(cur, proxy)
    IN  IF i = 0 THEN ps
        ELSE LET f == ps[i].failures + 1
             IN  [ps EXCEPT ![i].failures = f,
                            ![i].last_failure = t,
                            ![i].blocked_until = t + cooldown_time,
                            ![i].is_working =
                                IF f >= max_failures THEN FALSE ELSE @]

\* mark_proxy_failed that never turns is_working off
MarkProxyFailed_KeepsWorking(ps, cur, proxy, cooldown, t) ==
    LET i == Target(cur, proxy)
    IN  IF i = 0 THEN ps
        ELSE [ps EXCEPT ![i].failures = @ + 1,
                        ![i].last_failure = t,
                        ![i].blocked_until =
                            IF cooldown THEN t + cooldown_time ELSE @]

\* mark_proxy_failed(proxy, cooldown)
MarkProxyFailed(ps, cur, proxy, cooldown, t) ==
    LET i == Target(cur, proxy)
    IN  IF i = 0 THEN ps
        ELSE LET f == ps[i].failures + 1
             IN  [ps EXCEPT ![i].failures = f,
                            ![i].last_failure = t,
                            ![i].blocked_until =
                                IF cooldown THEN t + cooldown_time ELSE @,
                            ![i].is_working =
                                IF f >= max_failures THEN FALSE ELSE @]

\* mark_proxy_success that resets the failure counter, as test_proxy does
MarkProxySuccess_Reset(ps, cur, proxy) ==
    LET i == Target(cur, proxy)
    IN  IF i = 0 THEN ps
        ELSE [ps EXCEPT ![i].failures = 0,
                        ![i].is_working = TRUE,
                        ![i].blocked_until = NoneT]

\* mark_proxy_success(proxy)
MarkProxySuccess(ps, cur, proxy) ==
    LET i == Target(cur, proxy)
    IN  IF i = 0 THEN ps
        ELSE [ps EXCEPT ![i].failures =
                            IF @ > 0 THEN (IF @ - 1 > 0 THEN @ - 1 ELSE 0)
                            ELSE @,
                        ![i].is_working = TRUE,
                        ![i].blocked_until = NoneT]

\* handle_block that penalizes the current proxy without a cooldown
HandleBlock_NoCooldown(ps, cur, t) ==
    LET ps1 == IF cur # 0 THEN MarkProxyFailed(ps, cur, cur, FALSE, t) ELSE ps
    IN  GetNextProxy(ps1, cur, t)

\* handle_block: every outcome, as for GetNextProxy
HandleBlock(ps, cur, t) ==
    LET ps1 == IF cur # 0 THEN MarkProxyFailed(ps, cur, cur, TRUE, t) ELSE ps
    IN  GetNextProxy(ps1, cur, t)

----------------------------------------------------------------------------
(* SmartRetailScraper *)

None == [ok |-> FALSE, body |-> EmptyBody]
NoCall == [op |-> "none"]

\* ExperimentLogger.__init__
NewLogger == [current_experiment |-> <<>>, results |-> <<>>]
NoError == [kind |-> "None", status |-> 0]

\* the latency sample test_proxy leaves on a proxy whose probe answered 200
ProbeLatency == 2

\* SmartRetailScraper.__init__ with a proxy_list of n proxies, n in sizes:
\* the manager exists when the list is not empty, and test_on_init probed
\* every proxy: a probe that answered 200 left a latency sample (here the
\* first proxy's probe may have), any other probe left the proxy as created
InitPool(sizes) ==
    /\ \E n \in sizes, k \in 0..1 :
         /\ proxies = [i \in 1..n |->
                          IF i <= k
                          THEN [ProxyInfo EXCEPT !.response_time = ProbeLatency]
                          ELSE ProxyInfo]
         /\ proxy_manager = (n > 0)
    /\ auto_rotate \in BOOLEAN
    /\ current_proxy = 0
    /\ stats = [requests |-> 0, blocks_detected |-> 0, ip_switches |-> 0,
                successful_requests |-> 0, failed_requests |-> 0]
    /\ now = 0
    /\ pc = "idle"
    /\ retries = 0
    /\ max_retries = 0
    /\ last_error = NoError
    /\ result = None
    /\ term = "none"
    /\ routed = 0
    /\ response = NoResponse
    /\ penalized = 0
    /\ new_proxy = 0
    /\ sent = 0
    /\ call = NoCall
    /\ block_detected = FALSE
    /\ logger = NewLogger

\* the values callers pass for max_retries; None stands for config.MAX_RETRIES
RetryArgs == {1, MAX_RETRIES}

\* fetch_page(url, max_retries): lines 120-124
FetchPage ==
    /\ pc \in {"idle", "done"}
    /\ \E mr \in RetryArgs :
         /\ stats.requests + mr + 1 <= MaxRequests
         /\ max_retries' = mr
    /\ retries' = 0
    /\ last_error' = NoError
    /\ pc' = "loop"
    /\ term' = "running"
    /\ result' = None
    /\ sent' = 0
    /\ routed' = 0
    /\ response' = NoResponse
    /\ penalized' = 0
    /\ new_proxy' = 0
    /\ UNCHANGED <<proxies, current_proxy, proxy_manager, auto_rotate, stats, now>>
    /\ UNCHANGED call
    /\ UNCHANGED block_detected
    /\ UNCHANGED logger

\* lines 126-149: the loop test, the selection and the request going out
SendRequest ==
    /\ pc = "loop"
    /\ retries <= max_retries
    /\ \E sel \in (IF proxy_manager
                   THEN GetNextProxy(proxies, current_proxy, now)
                   ELSE {[proxies |-> proxies, current_proxy |-> current_proxy,
                          ret |-> 0]}) :
         /\ proxies' = sel.proxies
         /\ current_proxy' = sel.current_proxy
         /\ routed' = sel.ret
    /\ stats' = [stats EXCEPT !.requests = @ + 1]
    /\ sent' = sent + 1
    /\ pc' = "requesting"
    /\ response' = NoResponse
    /\ penalized' = 0
    /\ new_proxy' = 0
    /\ UNCHANGED <<proxy_manager, auto_rotate, now, retries, max_retries,
                   last_error, result, term>>
    /\ UNCHANGED call
    /\ UNCHANGED block_detected
    /\ UNCHANGED logger

\* a fall out of the loop that returns None without counting the failure
Exhausted_NoCount ==
    /\ pc = "loop"
    /\ ~(retries <= max_retries)
    /\ result' = None
    /\ term' = "retries_exhausted"
    /\ pc' = "done"
    /\ UNCHANGED <<proxies, current_proxy, proxy_manager, auto_rotate, now,
                   retries, max_retries, last_error, routed, response,
                   penalized, new_proxy, sent, stats>>
    /\ UNCHANGED call
    /\ UNCHANGED block_detected
    /\ UNCHANGED logger

\* lines 238-241: all retries exhausted
Exhausted ==
    /\ pc = "loop"
    /\ ~(retries <= max_retries)
    /\ stats' = [stats EXCEPT !.failed_requests = @ + 1]
    /\ result' = None
    /\ term' = "retries_exhausted"
    /\ pc' = "done"
    /\ UNCHANGED <<proxies, current_proxy, proxy_manager, auto_rotate, now,
                   retries, max_retries, last_error, routed, response,
                   penalized, new_proxy, sent>>
    /\ UNCHANGED call
    /\ UNCHANGED block_detected
    /\ UNCHANGED logger

\* the time session.get can take: it answers at once or runs into the timeout
ReqDurations == {REQUEST_TIMEOUT}

\* a default of FALSE for mark_proxy_failed's parameter cooldown
DefaultCooldown_Off == FALSE

\* the default of mark_proxy_failed's parameter cooldown (line 212)
DefaultCooldown == TRUE

\* lines 154-171: a detected block with rotation available
RespBlockedRotate ==
    /\ pc = "requesting"
    /\ auto_rotate /\ proxy_manager
    /\ \E resp \in FetchResponses, d \in ReqDurations :
         /\ CheckIfBlocked(resp)
         /\ response' = resp
         /\ \E hb \in HandleBlock(proxies, current_proxy, now + d) :
              /\ proxies' = hb.proxies
              /\ current_proxy' = hb.current_proxy
              /\ new_proxy' = hb.ret
              /\ penalized' = current_proxy
              /\ IF hb.ret # 0
                 THEN /\ now' = now + d + RETRY_DELAY
                      /\ retries' = retries + 1
                      /\ pc' = "loop"
                      /\ stats' = [stats EXCEPT !.blocks_detected = @ + 1,
                                                !.ip_switches = @ + 1]
                      /\ UNCHANGED <<result, term>>
                 ELSE /\ now' = now + d
                      /\ stats' = [stats EXCEPT !.blocks_detected = @ + 1,
                                                !.ip_switches = @ + 1,
                                                !.failed_requests = @ + 1]
                      /\ result' = None
                      /\ term' = "no_working_proxies"
                      /\ pc' = "done"
                      /\ UNCHANGED retries
    /\ UNCHANGED <<proxy_manager, auto_rotate, max_retries, last_error, routed,
                   sent>>
    /\ UNCHANGED call
    /\ UNCHANGED block_detected
    /\ UNCHANGED logger

\* lines 154-157, 172-177: a detected block without rotation
RespBlockedNoRotate ==
    /\ pc = "requesting"
    /\ ~(auto_rotate /\ proxy_manager)
    /\ \E resp \in FetchResponses, d \in ReqDurations :
         /\ CheckIfBlocked(resp)
         /\ response' = resp
         /\ now' = now + d + RETRY_DELAY * (retries + 1)
    /\ stats' = [stats EXCEPT !.blocks_detected = @ + 1]
    /\ retries' = retries + 1
    /\ pc' = "loop"
    /\ penalized' = 0
    /\ new_proxy' = 0
    /\ UNCHANGED <<proxies, current_proxy, proxy_manager, auto_rotate,
                   max_retries, last_error, result, term, routed, sent>>
    /\ UNCHANGED call
    /\ UNCHANGED block_detected
    /\ UNCHANGED logger

\* the success branch taken without looking at the block check
RespSuccess_Unchecked ==
    /\ pc = "requesting"
    /\ \E resp \in FetchResponses, d \in ReqDurations,
          delay \in {MIN_DELAY, MAX_DELAY} :
         /\ resp.status = 200
         /\ response' = resp
         /\ result' = [ok |-> TRUE, body |-> resp.body]
         /\ now' = now + d + delay
    /\ stats' = [stats EXCEPT !.successful_requests = @ + 1]
    /\ proxies' = IF proxy_manager
                  THEN MarkProxySuccess(proxies, current_proxy, 0)
                  ELSE proxies
    /\ term' = "success"
    /\ pc' = "done"
    /\ penalized' = 0
    /\ new_proxy' = 0
    /\ UNCHANGED <<current_proxy, proxy_manager, auto_rotate, retries,
                   max_retries, last_error, routed, sent>>
    /\ UNCHANGED call
    /\ UNCHANGED block_detected
    /\ UNCHANGED logger

\* lines 180-189: status 200 that is not a detected block
RespSuccess ==
    /\ pc = "requesting"
    /\ \E resp \in FetchResponses, d \in ReqDurations,
          delay \in {MIN_DELAY, MAX_DELAY} :
         /\ ~CheckIfBlocked(resp)
         /\ resp.status = 200
         /\ response' = resp
         /\ result' = [ok |-> TRUE, body |-> resp.body]
         /\ now' = now + d + delay
    /\ stats' = [stats EXCEPT !.successful_requests = @ + 1]
    /\ proxies' = IF proxy_manager
                  THEN MarkProxySuccess(proxies, current_proxy, 0)
                  ELSE proxies
    /\ term' = "success"
    /\ pc' = "done"
    /\ penalized' = 0
    /\ new_proxy' = 0
    /\ UNCHANGED <<current_proxy, proxy_manager, auto_rotate, retries,
                   max_retries, last_error, routed, sent>>
    /\ UNCHANGED call
    /\ UNCHANGED block_detected
    /\ UNCHANGED logger

\* a 404 handled like any other unexpected status: penalized and retried
RespNotFound_Retried ==
    /\ pc = "requesting"
    /\ \E resp \in FetchResponses, d \in ReqDurations :
         /\ ~CheckIfBlocked(resp)
         /\ resp.status = 404
         /\ response' = resp
         /\ last_error' = [kind |-> "Status", status |-> resp.status]
         /\ proxies' = IF proxy_manager
                       THEN MarkProxyFailed(proxies, current_proxy, 0,
                                            TRUE, now + d)
                       ELSE proxies
         /\ now' = now + d + RETRY_DELAY
    /\ penalized' = IF proxy_manager THEN current_proxy ELSE 0
    /\ new_proxy' = 0
    /\ retries' = retries + 1
    /\ pc' = "loop"
    /\ UNCHANGED <<current_proxy, proxy_manager, auto_rotate, stats,
                   max_retries, result, term, routed, sent>>
    /\ UNCHANGED call
    /\ UNCHANGED block_detected
    /\ UNCHANGED logger

\* lines 192-195: status 404 that is not a detected block
RespNotFound ==
    /\ pc = "requesting"
    /\ \E resp \in FetchResponses, d \in ReqDurations :
         /\ ~CheckIfBlocked(resp)
         /\ resp.status = 404
         /\ response' = resp
         /\ now' = now + d
    /\ stats' = [stats EXCEPT !.failed_requests = @ + 1]
    /\ result' = None
    /\ term' = "not_found"
    /\ pc' = "done"
    /\ penalized' = 0
    /\ new_proxy' = 0
    /\ UNCHANGED <<proxies, current_proxy, proxy_manager, auto_rotate, retries,
                   max_retries, last_error, routed, sent>>
    /\ UNCHANGED call
    /\ UNCHANGED block_detected
    /\ UNCHANGED logger

\* lines 197-206: any other status that is not a detected block
RespOtherStatus ==
    /\ pc = "requesting"
    /\ \E resp \in FetchResponses, d \in ReqDurations :
         /\ ~CheckIfBlocked(resp)
         /\ resp.status # 200
         /\ resp.status # 404
         /\ response' = resp
         /\ last_error' = [kind |-> "Status", status |-> resp.status]
         /\ proxies' = IF proxy_manager
                       THEN MarkProxyFailed(proxies, current_proxy, 0,
                                            DefaultCooldown, now + d)
                       ELSE proxies
         /\ now' = now + d + RETRY_DELAY
    /\ penalized' = IF proxy_manager THEN current_proxy ELSE 0
    /\ new_proxy' = 0
    /\ retries' = retries + 1
    /\ pc' = "loop"
    /\ UNCHANGED <<current_proxy, proxy_manager, auto_rotate, stats,
                   max_retries, result, term, routed, sent>>
    /\ UNCHANGED call
    /\ UNCHANGED block_detected
    /\ UNCHANGED logger

\* an exception handler that forgets to count the attempt
RespException_NoCount ==
    /\ pc = "requesting"
    /\ \E k \in FetchErrors, d \in ReqDurations :
         /\ response' = ErrorResponse(k)
         /\ last_error' = [kind |-> k, status |-> 0]
         /\ proxies' = IF proxy_manager
                       THEN MarkProxyFailed(proxies, current_proxy, 0,
                                            DefaultCooldown, now + d)
                       ELSE proxies
         /\ now' = now + d + RETRY_DELAY
    /\ penalized' = IF proxy_manager THEN current_proxy ELSE 0
    /\ new_proxy' = 0
    /\ pc' = "loop"
    /\ UNCHANGED <<current_proxy, proxy_manager, auto_rotate, stats, retries,
                   max_retries, result, term, routed, sent>>
    /\ UNCHANGED call
    /\ UNCHANGED block_detected
    /\ UNCHANGED logger

\* lines 208-236: session.get raised Timeout, ConnectionError or another
\* exception
RespException ==
    /\ pc = "requesting"
    /\ \E k \in FetchErrors, d \in ReqDurations :
         /\ response' = ErrorResponse(k)
         /\ last_error' = [kind |-> k, status |-> 0]
         /\ proxies' = IF proxy_manager
                       THEN MarkProxyFailed(proxies, current_proxy, 0,
                                            DefaultCooldown, now + d)
                       ELSE proxies
         /\ now' = now + d + RETRY_DELAY
    /\ penalized' = IF proxy_manager THEN current_proxy ELSE 0
    /\ new_proxy' = 0
    /\ retries' = retries + 1
    /\ pc' = "loop"
    /\ UNCHANGED <<current_proxy, proxy_manager, auto_rotate, stats,
                   max_retries, result, term, routed, sent>>
    /\ UNCHANGED call
    /\ UNCHANGED block_detected
    /\ UNCHANGED logger

\* the caller lets cooldown_time seconds pass between two fetch_page calls,
\* once within the request budget
Wait ==
    /\ pc \in {"idle", "done"}
    /\ stats.requests < MaxRequests
    /\ now < cooldown_time
    /\ now' = now + cooldown_time
    /\ UNCHANGED <<proxies, current_proxy, proxy_manager, auto_rotate, stats,
                   pc, retries, max_retries, last_error, result, term, routed,
                   response, penalized, new_proxy, sent>>
    /\ UNCHANGED call
    /\ UNCHANGED block_detected
    /\ UNCHANGED logger

Next ==
    \/ FetchPage
    \/ SendRequest
    \/ Exhausted
    \/ RespBlockedRotate
    \/ RespBlockedNoRotate
    \/ RespSuccess
    \/ RespNotFound
    \/ RespOtherStatus
    \/ RespException
    \/ Wait

\* a scraper constructed with a proxy_list of at most MaxProxies proxies
Init == InitPool(0..MaxProxies)
Spec == Init /\ [][Next]_vars

\* the scenario of a scraper constructed with a proxy_list of three proxies
InitThree == InitPool({3})
SpecThree == InitThree /\ [][Next]_vars
----------------------------------------------------------------------------
(* Properties of fetch_page *)

\* the last session.get returned a response the block check flags
Blocked(resp) == resp.kind = "http" /\ CheckIfBlocked(resp)

\* get_next_proxy, asked at the start of an attempt, has no proxy to return
SelectorReturnsNone ==
    proxy_manager /\ GetWorkingProxies(proxies, now) = <<>>

\* C1: whenever fetch_page asks the selector for a proxy and it returns none
\* (every proxy disabled or in cooldown), the call ends at once in failure
\* and issues no request from then on.
C1_PoolExhaustionIsTerminal ==
    [][(pc = "loop" /\ retries <= max_retries /\ SelectorReturnsNone)
          => (pc' = "done" /\ result' = None /\ sent' = sent
              /\ stats'.requests = stats.requests)]_vars

\* the three proxies of the pool are all selectable at time t
AllHealthy(ps, t) == \A i \in DOMAIN ps : IsWorking(ps[i], t)

\* C2, first attempt: in a pool of 3 healthy proxies with rotation enabled, a
\* 403 on the first request gives the proxy that served it one more failure
\* and an active cooldown, leaves the two others healthy and the call running.
C2_FirstAttempt ==
    (/\ pc = "requesting" /\ sent = 1 /\ auto_rotate /\ Len(proxies) = 3
     /\ AllHealthy(proxies, now)
     /\ response'.kind = "http" /\ response'.status = 403)
    => /\ routed # 0
       /\ proxies'[routed].failures = proxies[routed].failures + 1
       /\ proxies'[routed].blocked_until > now'
       /\ \A j \in DOMAIN proxies : j # routed => IsWorking(proxies'[j], now')
       /\ penalized' = routed
       /\ pc' = "loop" /\ retries' = 1

\* C2, second attempt: the next request goes through one of the two others.
C2_SecondRequest ==
    (/\ pc = "loop" /\ sent = 1 /\ retries = 1 /\ auto_rotate
     /\ Len(proxies) = 3
     /\ response.kind = "http" /\ response.status = 403
     /\ penalized = routed /\ routed # 0
     /\ \A j \in DOMAIN proxies : j # routed => IsWorking(proxies[j], now))
    => /\ pc' = "requesting" /\ sent' = 2
       /\ routed' \in DOMAIN proxies /\ routed' # routed
       /\ current_proxy' = routed'

\* C2, second answer: 200 with the 1200-byte page ends the call with that
\* body after 2 requests, and the success goes to the second proxy.
C2_SecondAnswer ==
    (/\ pc = "requesting" /\ sent = 2 /\ retries = 1 /\ auto_rotate
     /\ Len(proxies) = 3 /\ routed # 0
     /\ response' = HttpResponse(200, PageBody))
    => /\ pc' = "done" /\ term' = "success"
       /\ result' = [ok |-> TRUE, body |-> PageBody]
       /\ BodyLen(result'.body) = 1200
       /\ sent' = 2
       /\ current_proxy = routed
       /\ proxies'[routed].is_working
       /\ proxies'[routed].blocked_until = NoneT
       /\ proxies'[routed].failures =
              IF proxies[routed].failures > 0
              THEN proxies[routed].failures - 1 ELSE 0
       /\ \A j \in DOMAIN proxies : j # routed => proxies'[j] = proxies[j]

\* C2: the rotation scenario, pool of 3 healthy proxies, 403 then 200.
C2_RotationScenario ==
    [][C2_FirstAttempt /\ C2_SecondRequest /\ C2_SecondAnswer]_vars

\* C2 witness: a call over 3 proxies that ended in success on its second
\* request, after one block penalized another proxy.
C2_Witness ==
    /\ pc = "done" /\ term = "success" /\ sent = 2 /\ auto_rotate
    /\ Len(proxies) = 3
    /\ response = HttpResponse(200, PageBody)
    /\ stats.requests = 2 /\ stats.blocks_detected = 1
    /\ \E i \in DOMAIN proxies :
         /\ i # routed
         /\ proxies[i].failures = 1
         /\ proxies[i].blocked_until > now
C3_RotationEnabled ==
    (/\ pc = "requesting" /\ Len(proxies) = 1 /\ sent = 1 /\ auto_rotate
     /\ max_retries = MAX_RETRIES
     /\ response' = HttpResponse(429, PageBody))
    => /\ pc' = "done" /\ term' = "no_working_proxies" /\ result' = None
       /\ sent' = 1 /\ retries' = 0
       /\ proxies'[1].failures = proxies[1].failures + 1
       /\ proxies'[1].blocked_until > now'
       /\ proxies'[1].failures >= max_failures => ~proxies'[1].is_working
       /\ new_proxy' = 0

\* C3 amended, rotation disabled: a first call whose every request was
\* detected as blocked runs out of retries after max_retries + 1 requests,
\* with no reason recorded and no failure on the proxy.
C3_RotationDisabled ==
    (/\ pc = "done" /\ Len(proxies) = 1 /\ ~auto_rotate
     /\ stats.requests = sent /\ stats.blocks_detected = sent)
    => /\ term = "retries_exhausted" /\ result = None
       /\ sent = max_retries + 1
       /\ last_error = NoError
       /\ proxies[1].failures = 0

C5_BlockPenalizesServingProxy ==
    [][(pc = "requesting" /\ routed # 0 /\ Blocked(response'))
          => /\ proxies'[routed].failures = proxies[routed].failures + 1
             /\ proxies'[routed].last_failure >= now
             /\ proxies'[routed].blocked_until =
                    proxies'[routed].last_failure + cooldown_time]_vars
\* C6: with rotation enabled, a detected block takes one unit of the retry
\* budget, and the next request of the call goes through the proxy that
\* handle_block returned (the current proxy), never through the proxy just
\* put in cooldown.
C6_NextRequestUsesReplacement ==
    [][/\ (pc = "requesting" /\ auto_rotate /\ proxy_manager
           /\ Blocked(response') /\ pc' = "loop")
          => retries' = retries + 1
       /\ (pc = "loop" /\ auto_rotate /\ proxy_manager /\ Blocked(response)
           /\ pc' = "requesting")
          => (/\ routed' = new_proxy
              /\ current_proxy' = new_proxy
              /\ routed' # penalized)]_vars

\* C7: with rotation disabled, a detected block is followed by a sleep of
\* RETRY_DELAY * (retries + 1), and the next request of the call goes through
\* the same proxy as the blocked one.
C7_RetrySameProxy ==
    [][/\ (pc = "requesting" /\ ~auto_rotate /\ Blocked(response'))
          => (/\ pc' = "loop"
              /\ now' - now >= RETRY_DELAY * (retries + 1))
       /\ (pc = "loop" /\ ~auto_rotate /\ Blocked(response)
           /\ pc' = "requesting")
          => routed' = routed]_vars

\* the last session.get failed in transport: an exception, or a status that
\* is neither 200 nor 404 nor a detected block
TransportError(resp) ==
    \/ resp.kind \in FetchErrors
    \/ (resp.kind = "http" /\ ~CheckIfBlocked(resp)
        /\ resp.status # 200 /\ resp.status # 404)

\* C8 as claimed: a transport error adds one failure to the proxy that served
\* the request and leaves its blocked_until as it was.
C8_ErrorWithoutCooldown ==
    [][(pc = "requesting" /\ routed # 0 /\ TransportError(response'))
          => /\ proxies'[routed].failures = proxies[routed].failures + 1
             /\ proxies'[routed].blocked_until = proxies[routed].blocked_until]_vars

\* C8 amended: a transport error adds one failure to the current proxy and
\* puts it in cooldown (blocked_until = time of the failure + cooldown_time),
\* so it is not selectable for the next attempt; no other proxy changes.
C8_ErrorWithCooldown ==
    [][(pc = "requesting" /\ proxy_manager /\ current_proxy # 0
        /\ TransportError(response'))
          => /\ routed # 0 => routed = current_proxy
             /\ proxies'[current_proxy].failures =
                    proxies[current_proxy].failures + 1
             /\ proxies'[current_proxy].last_failure = now' - RETRY_DELAY
             /\ proxies'[current_proxy].blocked_until =
                    proxies'[current_proxy].last_failure + cooldown_time
             /\ proxies'[current_proxy].failures >= max_failures
                    => ~proxies'[current_proxy].is_working
             /\ ~IsWorking(proxies'[current_proxy], now')
             /\ \A j \in DOMAIN proxies :
                    j # current_proxy => proxies'[j] = proxies[j]
             /\ pc' = "loop" /\ retries' = retries + 1]_vars

\* C8 witness: a request through a proxy ended in a timeout, and the proxy
\* is in cooldown with its counter still below the ceiling.
C8_Witness ==
    /\ pc = "loop" /\ response = ErrorResponse("Timeout")
    /\ routed # 0 /\ penalized = routed
    /\ proxies[routed].failures = 1 /\ proxies[routed].failures < max_failures
    /\ proxies[routed].blocked_until > now
    /\ proxies[routed].is_working

\* C9 as claimed: a 404 ends the call at once, whatever its body holds, and
\* is never handled as a block: no block counted, no proxy changed.
C9_NotFoundNeverBlock ==
    [][(pc = "requesting" /\ response'.kind = "http"
        /\ response'.status = 404)
          => /\ pc' = "done" /\ term' = "not_found"
             /\ stats'.blocks_detected = stats.blocks_detected
             /\ stats'.ip_switches = stats.ip_switches
             /\ proxies' = proxies]_vars

\* C9 amended: a 404 the block check does not flag ends the call at once
\* with no block counted and no proxy changed; a 404 whose body holds a
\* denylisted phrase is counted and handled as a block.
C9_NotFoundUnlessFlagged ==
    [][(pc = "requesting" /\ response'.kind = "http"
        /\ response'.status = 404)
          => IF ~CheckIfBlocked(response')
             THEN /\ pc' = "done" /\ term' = "not_found" /\ result' = None
                  /\ sent' = sent /\ retries' = retries
                  /\ stats' = [stats EXCEPT !.failed_requests = @ + 1]
                  /\ proxies' = proxies
                  /\ current_proxy' = current_proxy
             ELSE /\ term' # "not_found"
                  /\ stats'.blocks_detected = stats.blocks_detected + 1]_vars

\* C9 witness: a call ended by a 404 with a clean body, nothing recorded on
\* the proxy that served it.
C9_Witness ==
    /\ pc = "done" /\ term = "not_found"
    /\ response = HttpResponse(404, PageBody)
    /\ routed # 0 /\ proxies[routed].failures = 0
    /\ proxies[routed].blocked_until = NoneT
    /\ stats.blocks_detected = 0 /\ stats.failed_requests = 1

\* what is left of the running call: twice the attempts still allowed, plus
\* one while the loop test is still to come
Measure ==
    2 * (max_retries + 1 - retries) + (IF pc = "loop" THEN 1 ELSE 0)

Running == pc \in {"loop", "requesting"}

FetchStep ==
    \/ SendRequest \/ Exhausted \/ RespBlockedRotate \/ RespBlockedNoRotate
    \/ RespSuccess \/ RespNotFound \/ RespOtherStatus \/ RespException

\* C10: a running call can always take its next step, every attempt either
\* ends the call or adds exactly one to retries, every step of the call ends
\* it or lowers a measure that is never negative, and a call issues at most
\* max_retries + 1 requests.
C10_FetchTerminates ==
    /\ [](Running => (ENABLED FetchStep /\ Measure >= 0))
    /\ [](sent <= max_retries + 1)
    /\ [][(pc = "requesting")
             => (pc' = "done" \/ (pc' = "loop" /\ retries' = retries + 1))]_vars
    /\ [][Running => (pc' = "done" \/ (Running' /\ Measure' < Measure))]_vars
    /\ [][sent' # sent => (sent' = 0 \/ sent' = sent + 1)]_vars

\* C10 witness: a call that used its whole budget, max_retries + 1 requests,
\* and ended.
C10_Witness ==
    /\ pc = "done" /\ term = "retries_exhausted"
    /\ max_retries = MAX_RETRIES /\ sent = max_retries + 1
    /\ retries = max_retries + 1

\* the reason the last attempt of a call gave for failing: the exception, the
\* unexpected status, or the block with the status that came with it
LastReason(resp) ==
    IF resp.kind \in FetchErrors THEN [kind |-> resp.kind, status |-> 0]
    ELSE IF CheckIfBlocked(resp) THEN [kind |-> "Block", status |-> resp.status]
    ELSE [kind |-> "Status", status |-> resp.status]

\* C11: a call that ends in failure hands its caller a reason (more than the
\* bare None), and when it ends because the retries ran out the reason it
\* names is the error or block of the last attempt.
C11_FailureReasonTyped ==
    (pc = "done" /\ term # "success") =>
        /\ result # None
        /\ term = "retries_exhausted" => last_error = LastReason(response)

----------------------------------------------------------------------------
(* ProxyRotationManager used on its own, as in the demonstration at the    *)
(* end of proxy_manager.py: the caller makes one call after the other and  *)
(* lets time pass between them.  `call` keeps the last call.               *)

MaxFailures == 4
MaxTicks == 2

\* test_proxy that takes a probe answered 200 as the end of the cooldown
TestProxy_ClearsCooldown(ps, proxy, status, latency) ==
    IF status = 200
    THEN [proxies |-> [ps EXCEPT ![proxy].is_working = TRUE,
                                 ![proxy].response_time = latency,
                                 ![proxy].failures = 0,
                                 ![proxy].blocked_until = NoneT],
          ret |-> TRUE]
    ELSE [proxies |-> ps, ret |-> FALSE]

\* test_proxy(proxy) whose request ended with `status` (0 = an exception)
\* after `latency` seconds: the new pool and the value returned
TestProxy(ps, proxy, status, latency) ==
    IF status = 200
    THEN [proxies |-> [ps EXCEPT ![proxy].is_working = TRUE,
                                 ![proxy].response_time = latency,
                                 ![proxy].failures = 0],
          ret |-> TRUE]
    ELSE [proxies |-> ps, ret |-> FALSE]

\* ProxyRotationManager(proxy_list, test_on_init=False) with 1..MaxProxies
\* proxies
InitManager ==
    /\ \E n \in 1..MaxProxies : proxies = [i \in 1..n |-> ProxyInfo]
    /\ proxy_manager = TRUE
    /\ auto_rotate = FALSE
    /\ current_proxy = 0
    /\ stats = [requests |-> 0, blocks_detected |-> 0, ip_switches |-> 0,
                successful_requests |-> 0, failed_requests |-> 0]
    /\ now = 0
    /\ pc = "idle"
    /\ retries = 0
    /\ max_retries = 0
    /\ last_error = NoError
    /\ result = None
    /\ term = "none"
    /\ routed = 0
    /\ response = NoResponse
    /\ penalized = 0
    /\ new_proxy = 0
    /\ sent = 0
    /\ call = NoCall
    /\ block_detected = FALSE
    /\ logger = NewLogger

\* get_working_proxies()
CallGetWorkingProxies ==
    /\ call' = [op |-> "get_working_proxies",
                ret |-> GetWorkingProxies(proxies, now)]
    /\ UNCHANGED <<proxies, current_proxy, proxy_manager, auto_rotate, stats,
                   now, pc, retries, max_retries, last_error, result, term,
                   routed, response, penalized, new_proxy, sent>>
    /\ UNCHANGED block_detected
    /\ UNCHANGED logger

\* get_next_proxy()
CallGetNextProxy ==
    /\ \E sel \in GetNextProxy(proxies, current_proxy, now) :
         /\ proxies' = sel.proxies
         /\ current_proxy' = sel.current_proxy
         /\ call' = [op |-> "get_next_proxy", ret |-> sel.ret]
    /\ UNCHANGED <<proxy_manager, auto_rotate, stats, now, pc, retries,
                   max_retries, last_error, result, term, routed, response,
                   penalized, new_proxy, sent>>
    /\ UNCHANGED block_detected
    /\ UNCHANGED logger

\* mark_proxy_failed(proxy, cooldown); proxy = 0 stands for None
CallMarkProxyFailed ==
    /\ \E proxy \in 0..Len(proxies), cooldown \in BOOLEAN :
         /\ Target(current_proxy, proxy) # 0 =>
                proxies[Target(current_proxy, proxy)].failures < MaxFailures
         /\ proxies' = MarkProxyFailed(proxies, current_proxy, proxy,
                                       cooldown, now)
         /\ call' = [op |-> "mark_proxy_failed", proxy |-> proxy,
                     cooldown |-> cooldown]
    /\ UNCHANGED <<current_proxy, proxy_manager, auto_rotate, stats, now, pc,
                   retries, max_retries, last_error, result, term, routed,
                   response, penalized, new_proxy, sent>>
    /\ UNCHANGED block_detected
    /\ UNCHANGED logger

\* mark_proxy_success(proxy); proxy = 0 stands for None
CallMarkProxySuccess ==
    /\ \E proxy \in 0..Len(proxies) :
         /\ proxies' = MarkProxySuccess(proxies, current_proxy, proxy)
         /\ call' = [op |-> "mark_proxy_success", proxy |-> proxy]
    /\ UNCHANGED <<current_proxy, proxy_manager, auto_rotate, stats, now, pc,
                   retries, max_retries, last_error, result, term, routed,
                   response, penalized, new_proxy, sent>>
    /\ UNCHANGED block_detected
    /\ UNCHANGED logger

\* the ways the request of test_proxy can end: a status, or 0 for an exception
ProbeStatuses == {200, 503, 0}

\* test_proxy(proxy)
CallTestProxy ==
    /\ \E proxy \in 1..Len(proxies), status \in ProbeStatuses :
         LET tp == TestProxy(proxies, proxy, status, ProbeLatency)
         IN  /\ proxies' = tp.proxies
             /\ call' = [op |-> "test_proxy", proxy |-> proxy,
                         status |-> status, ret |-> tp.ret]
    /\ UNCHANGED <<current_proxy, proxy_manager, auto_rotate, stats, now, pc,
                   retries, max_retries, last_error, result, term, routed,
                   response, penalized, new_proxy, sent>>
    /\ UNCHANGED block_detected
    /\ UNCHANGED logger

\* cooldown_time seconds pass between two calls
Tick ==
    /\ now < MaxTicks * cooldown_time
    /\ now' = now + cooldown_time
    /\ call' = NoCall
    /\ UNCHANGED <<proxies, current_proxy, proxy_manager, auto_rotate, stats,
                   pc, retries, max_retries, last_error, result, term, routed,
                   response, penalized, new_proxy, sent>>
    /\ UNCHANGED block_detected
    /\ UNCHANGED logger

\* add_proxy(proxy_url)
CallAddProxy ==
    /\ Len(proxies) < MaxProxies
    /\ proxies' = Append(proxies, ProxyInfo)
    /\ call' = [op |-> "add_proxy"]
    /\ UNCHANGED <<current_proxy, proxy_manager, auto_rotate, stats, now, pc,
                   retries, max_retries, last_error, result, term, routed,
                   response, penalized, new_proxy, sent, block_detected,
                   logger>>

\* handle_block()
CallHandleBlock ==
    /\ current_proxy # 0 => proxies[current_proxy].failures < MaxFailures
    /\ \E hb \in HandleBlock(proxies, current_proxy, now) :
         /\ proxies' = hb.proxies
         /\ current_proxy' = hb.current_proxy
         /\ call' = [op |-> "handle_block", ret |-> hb.ret]
    /\ UNCHANGED <<proxy_manager, auto_rotate, stats, now, pc, retries,
                   max_retries, last_error, result, term, routed, response,
                   penalized, new_proxy, sent, block_detected, logger>>

\* get_stats(); the average response time is the fraction num/den
GetStats(ps, cur) ==
    LET total == Len(ps)
        working == Cardinality({i \in DOMAIN ps : ps[i].is_working})
        failed == Cardinality({i \in DOMAIN ps : ps[i].failures >= max_failures})
        idx == SelectSeq([i \in 1..total |-> i],
                         LAMBDA i : ps[i].is_working /\ ps[i].response_time > 0)
        response_times == [k \in DOMAIN idx |-> ps[idx[k]].response_time]
    IN  [total_proxies |-> total,
         working_proxies |-> working,
         failed_proxies |-> failed,
         average_response_time |->
             IF working > 0 /\ response_times # <<>>
             THEN [num |-> Sum(response_times), den |-> Len(response_times)]
             ELSE [num |-> 0, den |-> 1],
         current_proxy |-> cur]

NextManager ==
    \/ CallGetWorkingProxies
    \/ CallGetNextProxy
    \/ CallMarkProxyFailed
    \/ CallMarkProxySuccess
    \/ CallTestProxy
    \/ CallAddProxy
    \/ CallHandleBlock
    \/ Tick

SpecManager == InitManager /\ [][NextManager]_vars

----------------------------------------------------------------------------
(* Properties of ProxyRotationManager *)

\* C12: get_working_proxies at time now returns exactly the proxies, in pool
\* order, with failures < max_failures, blocked_until unset or <= now, and
\* is_working; it changes no proxy and not the current proxy.
C12_HealthySnapshot ==
    [][call'.op = "get_working_proxies" =>
          /\ Range(call'.ret) =
                 {i \in DOMAIN proxies :
                     /\ proxies[i].failures < max_failures
                     /\ (proxies[i].blocked_until = NoneT
                         \/ proxies[i].blocked_until <= now)
                     /\ proxies[i].is_working}
          /\ \A j, k \in DOMAIN call'.ret : j < k => call'.ret[j] < call'.ret[k]
          /\ proxies' = proxies
          /\ current_proxy' = current_proxy]_vars

\* C12 witness: a snapshot that leaves out a proxy with no failure whose
\* blocked_until is in the future, and holds one whose blocked_until is now.
C12_Witness ==
    /\ call.op = "get_working_proxies"
    /\ \E i, j \in DOMAIN proxies :
         /\ proxies[i].failures = 0 /\ proxies[i].is_working
         /\ proxies[i].blocked_until > now
         /\ proxies[j].blocked_until = now
         /\ call.ret = <<j>>

\* proxy i has reached the failure ceiling and is switched off
Disabled(ps, i) == ps[i].failures >= max_failures /\ ~ps[i].is_working

\* the times at which a later snapshot can be taken: at once, and when
\* cooldowns have run out
LaterTimes(t) == {t + k * cooldown_time : k \in 0..MaxTicks}

\* the call just made re-enables proxy i: a success recorded on it, or a
\* probe of it that answered 200
ReEnables(c, cur, i) ==
    \/ c.op = "mark_proxy_success" /\ Target(cur, c.proxy) = i
    \/ c.op = "test_proxy" /\ c.proxy = i /\ c.ret

\* C13: a mark_proxy_failed with cooldown that brings a proxy's counter to
\* max_failures or beyond (the N-th failure in a row, N >= max_failures)
\* leaves it with is_working false; such a proxy is in no snapshot at any
\* later time, cooldown run out or not, and stays so through every call that
\* does not re-enable it.
C13_DisabledAfterCeiling ==
    /\ [][\A i \in DOMAIN proxies :
            (/\ call'.op = "mark_proxy_failed" /\ call'.cooldown
             /\ Target(current_proxy, call'.proxy) = i
             /\ proxies[i].failures + 1 >= max_failures)
            => /\ proxies'[i].failures = proxies[i].failures + 1
               /\ Disabled(proxies', i)]_vars
    /\ [](\A i \in DOMAIN proxies :
            Disabled(proxies, i) =>
                \A t \in LaterTimes(now) :
                    i \notin Range(GetWorkingProxies(proxies, t)))
    /\ [][\A i \in DOMAIN proxies :
            (Disabled(proxies, i) /\ ~ReEnables(call', current_proxy, i))
            => Disabled(proxies', i)]_vars

\* C13 witness: a proxy that only ever failed, more often than max_failures,
\* is left out of a snapshot taken after its cooldown ran out.
C13_Witness ==
    /\ call.op = "get_working_proxies"
    /\ \E i \in DOMAIN proxies :
         /\ proxies[i].failures > max_failures
         /\ proxies[i].response_time = 0 /\ proxies[i].last_used = NoneT
         /\ ~proxies[i].is_working
         /\ proxies[i].blocked_until # NoneT /\ proxies[i].blocked_until < now
         /\ i \notin Range(call.ret)

\* C14: through any sequence of fetch_page calls, a proxy whose failure
\* counter has reached max_failures stays switched off and at the ceiling,
\* and no request is routed through it again.
C14_DisabledForGood ==
    [][\A i \in DOMAIN proxies :
          Disabled(proxies, i) =>
              /\ Disabled(proxies', i)
              /\ ~IsWorking(proxies'[i], now')
              /\ (pc' = "requesting" /\ pc = "loop") => routed' # i]_vars

\* C15: mark_proxy_success on a proxy with failure counter c leaves the
\* counter at c - 1 when c > 0 and at 0 when c = 0, sets is_working and
\* clears blocked_until, and changes nothing else; no counter is ever
\* negative.
C15_SuccessDecrementsByOne ==
    /\ [][call'.op = "mark_proxy_success" =>
            LET i == Target(current_proxy, call'.proxy)
            IN  IF i = 0 THEN proxies' = proxies
                ELSE /\ proxies[i].failures > 0 =>
                            proxies'[i].failures = proxies[i].failures - 1
                     /\ proxies[i].failures = 0 => proxies'[i].failures = 0
                     /\ proxies'[i].is_working
                     /\ proxies'[i].blocked_until = NoneT
                     /\ proxies'[i].last_used = proxies[i].last_used
                     /\ proxies'[i].last_failure = proxies[i].last_failure
                     /\ proxies'[i].response_time = proxies[i].response_time
                     /\ \A j \in DOMAIN proxies :
                            j # i => proxies'[j] = proxies[j]]_vars
    /\ [](\A i \in DOMAIN proxies : proxies[i].failures >= 0)

\* C15 witness: a proxy that failed and was never probed has its counter
\* back at 0, is working and out of cooldown after a recorded success.
C15_Witness ==
    /\ call.op = "mark_proxy_success"
    /\ \E i \in DOMAIN proxies :
         /\ Target(current_proxy, call.proxy) = i
         /\ proxies[i].last_failure # NoneT /\ proxies[i].response_time = 0
         /\ proxies[i].failures = 0
         /\ proxies[i].is_working /\ proxies[i].blocked_until = NoneT

\* C16: mark_proxy_failed on a proxy adds exactly 1 to its failure counter
\* and sets last_failure to now; blocked_until becomes now + cooldown_time
\* when cooldown is given and is unchanged otherwise; is_working is false
\* afterwards exactly when the new counter is >= max_failures (and untouched
\* below); nothing else and no other proxy changes.
C16_FailureAccounting ==
    [][call'.op = "mark_proxy_failed" =>
          LET i == Target(current_proxy, call'.proxy)
          IN  IF i = 0 THEN proxies' = proxies
              ELSE /\ proxies'[i].failures = proxies[i].failures + 1
                   /\ proxies'[i].last_failure = now
                   /\ call'.cooldown =>
                          proxies'[i].blocked_until = now + cooldown_time
                   /\ ~call'.cooldown =>
                          proxies'[i].blocked_until = proxies[i].blocked_until
                   /\ ~proxies'[i].is_working
                          <=> proxies'[i].failures >= max_failures
                   /\ proxies'[i].failures < max_failures =>
                          proxies'[i].is_working = proxies[i].is_working
                   /\ proxies'[i].last_used = proxies[i].last_used
                   /\ proxies'[i].response_time = proxies[i].response_time
                   /\ \A j \in DOMAIN proxies :
                          j # i => proxies'[j] = proxies[j]]_vars

\* C16 witness: a failure recorded without cooldown brought a proxy to the
\* ceiling and switched it off, its older blocked_until left as it was.
C16_Witness ==
    /\ call.op = "mark_proxy_failed" /\ ~call.cooldown
    /\ \E i \in DOMAIN proxies :
         /\ Target(current_proxy, call.proxy) = i
         /\ proxies[i].failures = max_failures /\ ~proxies[i].is_working
         /\ proxies[i].last_failure = now
         /\ proxies[i].blocked_until # NoneT
         /\ proxies[i].blocked_until # now + cooldown_time

\* C17: test_proxy on a proxy whose probe is answered 200 records the
\* latency, resets the failure counter to 0, sets is_working and returns
\* True; on any other status or an exception it returns False and leaves the
\* proxy as it was; blocked_until is never changed, nor any other proxy.
C17_ProbeEffect ==
    [][call'.op = "test_proxy" =>
          LET i == call'.proxy
          IN  /\ call'.ret <=> call'.status = 200
              /\ call'.ret =>
                     /\ proxies'[i].response_time = ProbeLatency
                     /\ proxies'[i].failures = 0
                     /\ proxies'[i].is_working
                     /\ proxies'[i].last_used = proxies[i].last_used
                     /\ proxies'[i].last_failure = proxies[i].last_failure
              /\ ~call'.ret => proxies'[i] = proxies[i]
              /\ proxies'[i].blocked_until = proxies[i].blocked_until
              /\ \A j \in DOMAIN proxies : j # i => proxies'[j] = proxies[j]
              /\ current_proxy' = current_proxy]_vars

\* C17 witness: a probe answered 200 reset the counter of a proxy that had
\* failed and left it in its cooldown.
C17_Witness ==
    /\ call.op = "test_proxy" /\ call.status = 200 /\ call.ret
    /\ proxies[call.proxy].failures = 0
    /\ proxies[call.proxy].last_failure # NoneT
    /\ proxies[call.proxy].response_time = ProbeLatency
    /\ proxies[call.proxy].blocked_until > now
    /\ ~IsWorking(proxies[call.proxy], now)

\* the proxies of the healthy snapshot at time t
Healthy(ps, t) ==
    {i \in DOMAIN ps :
        /\ ps[i].failures < max_failures
        /\ (ps[i].blocked_until = NoneT \/ ps[i].blocked_until <= t)
        /\ ps[i].is_working}

\* C18: get_next_proxy returns None exactly when the healthy snapshot is
\* empty, and then changes nothing; otherwise it returns a proxy of the
\* snapshot, which becomes the current proxy with last_used = now and nothing
\* else changed; every proxy of the snapshot has a positive weight and can be
\* the one returned.
C18_SelectOverHealthy ==
    /\ [][call'.op = "get_next_proxy" =>
            /\ call'.ret = 0 <=> Healthy(proxies, now) = {}
            /\ call'.ret = 0 =>
                   proxies' = proxies /\ current_proxy' = current_proxy
            /\ call'.ret # 0 =>
                   /\ call'.ret \in Healthy(proxies, now)
                   /\ Cardinality(Healthy(proxies, now)) = 1 =>
                          Healthy(proxies, now) = {call'.ret}
                   /\ current_proxy' = call'.ret
                   /\ proxies' = [proxies EXCEPT ![call'.ret].last_used = now]
         ]_vars
    /\ [](\A i \in Healthy(proxies, now) :
            /\ Weight(proxies[i]).num > 0 /\ Weight(proxies[i]).den > 0
            /\ ENABLED (CallGetNextProxy /\ call'.ret = i))

\* C18 witness: the selection returned a proxy with failures on its counter
\* while a proxy without any was in the snapshot too.
C18_Witness ==
    /\ call.op = "get_next_proxy" /\ call.ret # 0
    /\ current_proxy = call.ret
    /\ proxies[call.ret].failures > 0
    /\ proxies[call.ret].last_used = now
    /\ \E j \in Healthy(proxies, now) :
         j # call.ret /\ proxies[j].failures = 0

----------------------------------------------------------------------------
(* The three block checks applied to a response: BlockDetector.is_blocked, *)
(* SmartRetailScraper._check_if_blocked and                                *)
(* ProxyRotationManager.detect_block.                                      *)

MaxPhrases == 2

\* phrases a body can hold, in several letter cases
DetectorPhrases ==
    {"CAPTCHA", "CaptCha", "captcha", "Access Denied", "Please Verify",
     "Forbidden"}

\* the sequences of at most n phrases
RECURSIVE Texts(_)
Texts(n) ==
    IF n = 0 THEN {<<>>}
    ELSE Texts(n - 1) \cup
         {Append(t, ph) : t \in {u \in Texts(n - 1) : Len(u) = n - 1},
                          ph \in DetectorPhrases}

DetectorFillers == {0, 499, 500, 1200}
DetectorStatuses == {200, 403, 429, 503, 404, 500}

\* the responses handed to the checks
DetectorResponses ==
    {HttpResponse(st, [text |-> t, filler |-> f]) :
        st \in DetectorStatuses, t \in Texts(MaxPhrases), f \in DetectorFillers}

\* a response has come in and no check has looked at it yet
InitDetector ==
    /\ \E resp \in DetectorResponses : call = [op |-> "response", resp |-> resp]
    /\ proxies = <<>>
    /\ proxy_manager = FALSE
    /\ auto_rotate = FALSE
    /\ current_proxy = 0
    /\ stats = [requests |-> 0, blocks_detected |-> 0, ip_switches |-> 0,
                successful_requests |-> 0, failed_requests |-> 0]
    /\ now = 0
    /\ pc = "idle"
    /\ retries = 0
    /\ max_retries = 0
    /\ last_error = NoError
    /\ result = None
    /\ term = "none"
    /\ routed = 0
    /\ response = NoResponse
    /\ penalized = 0
    /\ new_proxy = 0
    /\ sent = 0
    /\ block_detected = FALSE
    /\ logger = NewLogger

\* BlockDetector.is_blocked(response)
CallIsBlocked ==
    /\ call' = [op |-> "is_blocked", resp |-> call.resp,
                ret |-> IsBlocked(call.resp)]
    /\ UNCHANGED <<proxies, current_proxy, proxy_manager, auto_rotate, stats,
                   now, pc, retries, max_retries, last_error, result, term,
                   routed, response, penalized, new_proxy, sent>>
    /\ UNCHANGED block_detected
    /\ UNCHANGED logger

\* SmartRetailScraper._check_if_blocked(response)
CallCheckIfBlocked ==
    /\ call' = [op |-> "_check_if_blocked", resp |-> call.resp,
                ret |-> CheckIfBlocked(call.resp)]
    /\ UNCHANGED <<proxies, current_proxy, proxy_manager, auto_rotate, stats,
                   now, pc, retries, max_retries, last_error, result, term,
                   routed, response, penalized, new_proxy, sent>>
    /\ UNCHANGED block_detected
    /\ UNCHANGED logger

\* ProxyRotationManager.detect_block(response)
CallDetectBlock ==
    /\ call' = [op |-> "detect_block", resp |-> call.resp,
                ret |-> DetectBlock(call.resp)]
    /\ UNCHANGED <<proxies, current_proxy, proxy_manager, auto_rotate, stats,
                   now, pc, retries, max_retries, last_error, result, term,
                   routed, response, penalized, new_proxy, sent>>
    /\ block_detected' = DetectBlock(call.resp)
    /\ UNCHANGED logger

NextDetector ==
    \/ CallIsBlocked
    \/ CallCheckIfBlocked
    \/ CallDetectBlock

SpecDetector == InitDetector /\ [][NextDetector]_vars

\* the body holds a phrase of BLOCK_PATTERNS, in whatever letter case
HoldsDenylisted(body) ==
    \E i \in DOMAIN body.text, k \in DOMAIN BLOCK_PATTERNS :
        Lower(body.text[i]) = BLOCK_PATTERNS[k]

\* C19: for a response with status 403, 429 or 503, is_blocked reports
\* blocked with the status reason naming that code, whatever the body holds;
\* _check_if_blocked and detect_block report a block as well.
C19_StatusRuleFirst ==
    (call.op # "response" /\ call.resp.status \in {403, 429, 503}) =>
        /\ call.op = "is_blocked" =>
               /\ call.ret.blocked
               /\ call.ret.reason.kind = "Status"
               /\ call.ret.reason.status = call.resp.status
        /\ call.op \in {"_check_if_blocked", "detect_block"} => call.ret

\* C19 witness: a 429 whose long body holds a denylisted phrase is reported
\* with the status reason.
C19_Witness ==
    /\ call.op = "is_blocked" /\ call.resp.status = 429
    /\ HoldsDenylisted(call.resp.body) /\ BodyLen(call.resp.body) >= 500
    /\ call.ret.blocked /\ call.ret.reason.kind = "Status"
    /\ call.ret.reason.status = 429

\* C20 as claimed: for every body that holds a denylisted phrase in any
\* letter case, is_blocked reports blocked with a pattern reason naming a
\* phrase the body holds, whatever the status.
C20_PatternReasonAlways ==
    (call.op = "is_blocked" /\ HoldsDenylisted(call.resp.body)) =>
        /\ call.ret.blocked
        /\ call.ret.reason.kind = "Pattern"
        /\ Contains(LowerText(call.resp.body), call.ret.reason.pattern)

\* C20 amended: for such a body is_blocked reports blocked; the reason is
\* the status reason when the status is 403, 429 or 503, and otherwise (also
\* for a 200 with 500 characters or more) the pattern reason naming the
\* first phrase of BLOCK_PATTERNS, in the order of that list, that the body
\* holds; _check_if_blocked reports a block too.
C20_PatternReasonUnlessStatus ==
    (call.op # "response" /\ HoldsDenylisted(call.resp.body)) =>
        /\ call.op = "is_blocked" =>
               /\ call.ret.blocked
               /\ IF call.resp.status \in {403, 429, 503}
                  THEN /\ call.ret.reason.kind = "Status"
                       /\ call.ret.reason.status = call.resp.status
                  ELSE /\ call.ret.reason.kind = "Pattern"
                       /\ \E k \in DOMAIN BLOCK_PATTERNS :
                            /\ call.ret.reason.pattern = BLOCK_PATTERNS[k]
                            /\ \E i \in DOMAIN call.resp.body.text :
                                 Lower(call.resp.body.text[i]) = BLOCK_PATTERNS[k]
                            /\ \A j \in 1..(k - 1) :
                                 \A i \in DOMAIN call.resp.body.text :
                                     Lower(call.resp.body.text[i]) # BLOCK_PATTERNS[j]
        /\ call.op = "_check_if_blocked" => call.ret

\* C20 witness: a 200 of 500 characters or more that holds two denylisted
\* phrases in mixed case is reported with the pattern reason naming the one
\* that comes first in BLOCK_PATTERNS, though it comes second in the body.
C20_Witness ==
    /\ call.op = "is_blocked" /\ call.resp.status = 200
    /\ BodyLen(call.resp.body) >= 500
    /\ call.resp.body.text = <<"CaptCha", "Access Denied">>
    /\ call.ret.blocked /\ call.ret.reason.kind = "Pattern"
    /\ call.ret.reason.pattern = "access denied"

MatchesStatusRule(resp) == resp.status \in {403, 429, 503}
MatchesPatternRule(resp) == HoldsDenylisted(resp.body)
MatchesShortRule(resp) == resp.status = 200 /\ BodyLen(resp.body) < 500

\* C22: is_blocked gives the reason of the earliest rule the response
\* matches, in the order status code, denylisted phrase, short 200 response,
\* and reports blocked exactly when some rule matches; a response that
\* matches none is reported not blocked with the reason OK.
C22_FirstMatchWins ==
    call.op = "is_blocked" =>
        /\ call.ret.reason.kind =
               (IF MatchesStatusRule(call.resp) THEN "Status"
                ELSE IF MatchesPatternRule(call.resp) THEN "Pattern"
                ELSE IF MatchesShortRule(call.resp)
                     THEN "Suspicious short response"
                ELSE "OK")
        /\ call.ret.blocked <=>
               (\/ MatchesStatusRule(call.resp)
                \/ MatchesPatternRule(call.resp)
                \/ MatchesShortRule(call.resp))
        /\ call.ret.blocked <=> call.ret.reason.kind # "OK"

\* C22 witness: a short 200 body holding 'captcha' matches the pattern rule
\* and the short-response rule and gets the pattern reason.
C22_Witness ==
    /\ call.op = "is_blocked" /\ call.resp.status = 200
    /\ call.resp.body = [text |-> <<"captcha">>, filler |-> 0]
    /\ MatchesPatternRule(call.resp) /\ MatchesShortRule(call.resp)
    /\ call.ret.blocked /\ call.ret.reason.kind = "Pattern"
    /\ call.ret.reason.pattern = "captcha"

\* C23: a block check changes no state of the manager, of the scraper or of
\* a proxy, and a check applied again to the same response returns what it
\* returned before.
C23_ClassificationIsPure ==
    [][call'.op \in {"is_blocked", "_check_if_blocked", "detect_block"} =>
          /\ UNCHANGED <<proxies, current_proxy, block_detected, proxy_manager,
                         auto_rotate, stats>>
          /\ (call.op = call'.op /\ call.resp = call'.resp) =>
                 call'.ret = call.ret]_vars

----------------------------------------------------------------------------
(* ExperimentLogger (blocking_experiments.py): start_experiment,           *)
(* log_request and end_experiment.  The file end_experiment writes is left *)
(* out; a rate or a mean is the fraction num/den, a median has den 2.      *)

MaxLog == 2
MaxExperiments == 1

\* the results _make_request hands to log_request: a page, a block by
\* status, a missing page, and a request that raised an exception
LogInputs ==
    {[success |-> TRUE, status_code |-> 200, response_time |-> ProbeLatency,
      blocked |-> FALSE, block_reason |-> "OK"],
     [success |-> FALSE, status_code |-> 403, response_time |-> ProbeLatency,
      blocked |-> TRUE, block_reason |-> "Status 403"],
     [success |-> FALSE, status_code |-> 404, response_time |-> ProbeLatency,
      blocked |-> FALSE, block_reason |-> "OK"],
     [success |-> FALSE, status_code |-> 0, response_time |-> 0,
      blocked |-> TRUE, block_reason |-> "Exception"]}

\* sum(1 for r in requests if r[field])
CountIf(requests, field) ==
    Cardinality({i \in DOMAIN requests : requests[i][field]})

\* the k-th smallest element of a sequence of numbers
KthSmallest(seq, k) ==
    CHOOSE v \in Range(seq) :
        /\ Cardinality({i \in DOMAIN seq : seq[i] < v}) < k
        /\ Cardinality({i \in DOMAIN seq : seq[i] <= v}) >= k

\* statistics.mean and statistics.median, 0 for an empty list
Mean(seq) ==
    IF seq = <<>> THEN [num |-> 0, den |-> 1]
    ELSE [num |-> Sum(seq), den |-> Len(seq)]

Median(seq) ==
    IF seq = <<>> THEN [num |-> 0, den |-> 1]
    ELSE [num |-> KthSmallest(seq, (Len(seq) + 1) \div 2)
                    + KthSmallest(seq, Len(seq) \div 2 + 1),
          den |-> 2]

\* successful / total if total > 0 else 0
Rate(count, total) ==
    IF total > 0 THEN [num |-> count, den |-> total] ELSE [num |-> 0, den |-> 1]

\* a first_block_at that takes the last block instead of the first
FirstBlockAt_Last(blocks) ==
    IF blocks # <<>> THEN blocks[Len(blocks)].request_number ELSE 0

\* first_block_at: blocks[0]['request_number'] if blocks else None (0)
FirstBlockAt(blocks) ==
    IF blocks # <<>> THEN blocks[1].request_number ELSE 0

\* the stats end_experiment computes
ExperimentStats(e) ==
    LET requests == e.requests
        total == Len(requests)
        successful == CountIf(requests, "success")
        blocked == CountIf(requests, "blocked")
        response_times ==
            LET idx == SelectSeq([i \in 1..total |-> i],
                                 LAMBDA i : requests[i].response_time > 0)
            IN  [k \in DOMAIN idx |-> requests[idx[k]].response_time]
    IN  [total_requests |-> total,
         successful_requests |-> successful,
         blocked_requests |-> blocked,
         success_rate |-> Rate(successful, total),
         block_rate |-> Rate(blocked, total),
         avg_response_time |-> Mean(response_times),
         median_response_time |-> Median(response_times),
         first_block_at |-> FirstBlockAt(e.blocks)]

InitLogger ==
    /\ logger = NewLogger
    /\ call = NoCall
    /\ block_detected = FALSE
    /\ proxies = <<>>
    /\ proxy_manager = FALSE
    /\ auto_rotate = FALSE
    /\ current_proxy = 0
    /\ stats = [requests |-> 0, blocks_detected |-> 0, ip_switches |-> 0,
                successful_requests |-> 0, failed_requests |-> 0]
    /\ now = 0
    /\ pc = "idle"
    /\ retries = 0
    /\ max_retries = 0
    /\ last_error = NoError
    /\ result = None
    /\ term = "none"
    /\ routed = 0
    /\ response = NoResponse
    /\ penalized = 0
    /\ new_proxy = 0
    /\ sent = 0

\* start_experiment(experiment_id, config); call.n counts the log_request
\* calls made since
StartExperiment ==
    /\ logger' = [logger EXCEPT !.current_experiment =
                      <<[experiment_id |-> "exp", started_at |-> now,
                         requests |-> <<>>, blocks |-> <<>>,
                         stats |-> <<>>]>>]
    /\ call' = [op |-> "start_experiment", n |-> 0]
    /\ UNCHANGED <<proxies, current_proxy, proxy_manager, auto_rotate, stats,
                   now, pc, retries, max_retries, last_error, result, term,
                   routed, response, penalized, new_proxy, sent,
                   block_detected>>

\* log_request(success, status_code, response_time, blocked, block_reason)
LogRequest ==
    /\ \E in \in LogInputs :
         IF logger.current_experiment = <<>>
         THEN /\ logger' = logger
              /\ call' = [op |-> "log_request", n |-> 0, entry |-> in]
         ELSE LET e == logger.current_experiment[1]
                  requests == Append(e.requests,
                                     [timestamp |-> now,
                                      success |-> in.success,
                                      status_code |-> in.status_code,
                                      response_time |-> in.response_time,
                                      blocked |-> in.blocked,
                                      block_reason |-> in.block_reason])
                  blocks == IF in.blocked
                            THEN Append(e.blocks,
                                        [request_number |-> Len(requests),
                                         status_code |-> in.status_code,
                                         reason |-> in.block_reason,
                                         timestamp |-> now])
                            ELSE e.blocks
              IN  /\ Len(e.requests) < MaxLog
                  /\ logger' = [logger EXCEPT !.current_experiment =
                                    <<[e EXCEPT !.requests = requests,
                                                !.blocks = blocks]>>]
                  /\ call' = [op |-> "log_request", n |-> call.n + 1,
                              entry |-> in]
    /\ UNCHANGED <<proxies, current_proxy, proxy_manager, auto_rotate, stats,
                   now, pc, retries, max_retries, last_error, result, term,
                   routed, response, penalized, new_proxy, sent,
                   block_detected>>

\* end_experiment()
EndExperiment ==
    /\ Len(logger.results) < MaxExperiments
    /\ IF logger.current_experiment = <<>>
       THEN /\ logger' = logger
            /\ call' = [op |-> "end_experiment", n |-> 0]
       ELSE LET e == logger.current_experiment[1]
                done == [experiment_id |-> e.experiment_id,
                         started_at |-> e.started_at,
                         requests |-> e.requests,
                         blocks |-> e.blocks,
                         stats |-> ExperimentStats(e),
                         ended_at |-> now]
            IN  /\ logger' = [current_experiment |-> <<>>,
                              results |-> Append(logger.results, done)]
                /\ call' = [op |-> "end_experiment", n |-> call.n]
    /\ UNCHANGED <<proxies, current_proxy, proxy_manager, auto_rotate, stats,
                   now, pc, retries, max_retries, last_error, result, term,
                   routed, response, penalized, new_proxy, sent,
                   block_detected>>

NextLogger ==
    \/ StartExperiment
    \/ LogRequest
    \/ EndExperiment

SpecLogger == InitLogger /\ [][NextLogger]_vars

\* the experiment end_experiment has just stored
Stored(lg) == lg.results[Len(lg.results)]

\* C24: log_request appends its arguments to the log of the running
\* experiment, and end_experiment stores the experiment with stats derived
\* from that log: total_requests is the number of log_request calls since
\* start_experiment, successful_requests and blocked_requests count the
\* entries with success resp. blocked, and first_block_at is the 1-based
\* position of the first blocked entry, or None (0) when there is none.
C24_StatsFromLog ==
    /\ [][(call'.op = "log_request" /\ logger.current_experiment # <<>>) =>
            LET before == logger.current_experiment[1].requests
                after == logger'.current_experiment[1].requests
            IN  /\ Len(after) = Len(before) + 1
                /\ \A i \in DOMAIN before : after[i] = before[i]
                /\ after[Len(after)].success = call'.entry.success
                /\ after[Len(after)].blocked = call'.entry.blocked
                /\ Len(after) = call'.n]_vars
    /\ [][(call'.op = "end_experiment" /\ logger.current_experiment # <<>>) =>
            LET log == logger.current_experiment[1].requests
                st == Stored(logger').stats
                blockedAt == {i \in DOMAIN log : log[i].blocked}
            IN  /\ Stored(logger').requests = log
                /\ logger'.current_experiment = <<>>
                /\ st.total_requests = call.n
                /\ st.total_requests = Len(log)
                /\ st.successful_requests =
                       Cardinality({i \in DOMAIN log : log[i].success})
                /\ st.blocked_requests = Cardinality(blockedAt)
                /\ IF blockedAt = {} THEN st.first_block_at = 0
                   ELSE /\ st.first_block_at \in blockedAt
                        /\ \A i \in blockedAt : st.first_block_at <= i]_vars

\* C24 witness: a finished experiment of two requests, the first a page and
\* the second a block, with first_block_at = 2.
C24_Witness ==
    /\ call.op = "end_experiment" /\ call.n = 2
    /\ logger.results # <<>>
    /\ Len(Stored(logger).requests) = 2
    /\ Stored(logger).requests[1].success
    /\ ~Stored(logger).requests[1].blocked
    /\ Stored(logger).requests[2].blocked
    /\ Stored(logger).stats.total_requests = 2
    /\ Stored(logger).stats.successful_requests = 1
    /\ Stored(logger).stats.blocked_requests = 1
    /\ Stored(logger).stats.first_block_at = 2

----------------------------------------------------------------------------
(* Further properties of fetch_page *)

\* the proxies a step changes, and those it changes in more than last_used
Changed == {i \in DOMAIN proxies : proxies'[i] # proxies[i]}
Rated ==
    {i \in DOMAIN proxies :
        [proxies'[i] EXCEPT !.last_used = 0] # [proxies[i] EXCEPT !.last_used = 0]}

\* a transition of a running call: the selection with the request going
\* out, or the handling of what came back
FetchTransition == pc = "requesting" \/ (pc = "loop" /\ pc' = "requesting")

C26_FeedbackOnServingProxy ==
    [][(pc = "requesting"
        /\ (term' = "success" \/ TransportError(response'))) =>
          IF routed # 0
          THEN /\ Changed \subseteq {routed}
               /\ TransportError(response') =>
                      proxies'[routed].failures = proxies[routed].failures + 1
          ELSE proxies' = proxies]_vars

\* C27: in every state reached through calls on the manager, a proxy has
\* is_working false exactly when its failure counter is >= max_failures, and
\* get_stats reports working_proxies + failed_proxies = total_proxies.
C27_WorkingIffBelowCeiling ==
    /\ \A i \in DOMAIN proxies :
          ~proxies[i].is_working <=> proxies[i].failures >= max_failures
    /\ LET st == GetStats(proxies, current_proxy)
       IN  st.working_proxies + st.failed_proxies = st.total_proxies

\* C28: for every response, the verdict a check returns is the verdict the
\* two other checks give for that response: _check_if_blocked, detect_block
\* and is_blocked agree on blocked / not blocked.
C28_ChecksAgree ==
    call.op \in {"is_blocked", "_check_if_blocked", "detect_block"} =>
        LET verdict == IF call.op = "is_blocked" THEN call.ret.blocked
                       ELSE call.ret
        IN  /\ verdict = IsBlocked(call.resp).blocked
            /\ verdict = CheckIfBlocked(call.resp)
            /\ verdict = DetectBlock(call.resp)

\* the step on which a fetch_page call returns
Returns == pc # "done" /\ pc' = "done"

\* the step on which session.get is called
IssuesRequest == pc = "loop" /\ pc' = "requesting"

\* C29: a fetch_page call adds exactly 1 to exactly one of
\* successful_requests and failed_requests, on the step it returns, and
\* nothing else changes them; requests grows by 1 with each request issued
\* and by nothing else; and always ip_switches <= blocks_detected <= requests
\* and successful_requests <= requests.
C29_StatsConsistent ==
    /\ [][LET ds == stats'.successful_requests - stats.successful_requests
              df == stats'.failed_requests - stats.failed_requests
              dr == stats'.requests - stats.requests
          IN  /\ Returns => (ds \in {0, 1} /\ df \in {0, 1} /\ ds + df = 1)
              /\ ~Returns => (ds = 0 /\ df = 0)
              /\ dr = (IF IssuesRequest THEN 1 ELSE 0)]_vars
    /\ [](/\ stats.ip_switches <= stats.blocks_detected
          /\ stats.blocks_detected <= stats.requests
          /\ stats.successful_requests <= stats.requests)

\* two calls have returned, one counted as success and one as failure, after
\* a block that switched the proxy
C29_Witness ==
    /\ pc = "done"
    /\ stats.successful_requests = 1
    /\ stats.failed_requests = 1
    /\ stats.ip_switches >= 1
    /\ stats.requests >= 3
----------------------------------------------------------------------------
(* RetailScraper.fetch_page: the basic fetch that retries by calling itself.
   The self-call is the last thing a frame does and its value is returned as
   it is, so the frames are modelled by the argument retries alone. *)

\* fetch_page is not called again once the clock has reached MaxClock
MaxClock == 100

\* what session.get gives the basic fetch: a status with a page, or a
\* requests.exceptions.RequestException
BasicStatuses == {200, 429, 403, 404, 500}
BasicResponses ==
    {HttpResponse(s, PageBody) : s \in BasicStatuses}
        \cup {ErrorResponse("RequestException")}

\* a RetailScraper after __init__: no proxies, no statistics
InitBasic ==
    /\ proxies = <<>>
    /\ proxy_manager = FALSE
    /\ auto_rotate = FALSE
    /\ current_proxy = 0
    /\ stats = [requests |-> 0, blocks_detected |-> 0, ip_switches |-> 0,
                successful_requests |-> 0, failed_requests |-> 0]
    /\ now = 0
    /\ pc = "idle"
    /\ retries = 0
    /\ max_retries = MAX_RETRIES
    /\ last_error = NoError
    /\ result = None
    /\ term = "none"
    /\ routed = 0
    /\ response = NoResponse
    /\ penalized = 0
    /\ new_proxy = 0
    /\ sent = 0
    /\ call = NoCall
    /\ block_detected = FALSE
    /\ logger = NewLogger

\* fetch_page(url): the call from outside, retries at its default 0
BasicFetchPage ==
    /\ pc \in {"idle", "done"}
    /\ now < MaxClock
    /\ retries' = 0
    /\ sent' = 0
    /\ pc' = "entry"
    /\ term' = "running"
    /\ result' = None
    /\ response' = NoResponse
    /\ UNCHANGED <<proxies, current_proxy, proxy_manager, auto_rotate, stats,
                   now, max_retries, last_error, routed, penalized, new_proxy,
                   call, block_detected, logger>>

\* lines 84-86: the frame was entered with retries above MAX_RETRIES
BasicMaxRetries ==
    /\ pc = "entry"
    /\ retries > MAX_RETRIES
    /\ result' = None
    /\ term' = "max_retries"
    /\ pc' = "done"
    /\ UNCHANGED <<proxies, current_proxy, proxy_manager, auto_rotate, stats,
                   now, retries, max_retries, last_error, routed, response,
                   penalized, new_proxy, sent, call, block_detected, logger>>

\* lines 88-97: session.get answers or raises
BasicRequest ==
    /\ pc = "entry"
    /\ ~(retries > MAX_RETRIES)
    /\ \E resp \in BasicResponses, d \in {0} \cup ReqDurations :
         /\ response' = resp
         /\ now' = now + d
    /\ sent' = sent + 1
    /\ pc' = "responded"
    /\ UNCHANGED <<proxies, current_proxy, proxy_manager, auto_rotate, stats,
                   retries, max_retries, last_error, result, term, routed,
                   penalized, new_proxy, call, block_detected, logger>>

\* lines 99-102: status 200
BasicSuccess ==
    /\ pc = "responded"
    /\ response.kind = "http" /\ response.status = 200
    /\ \E delay \in {MIN_DELAY, MAX_DELAY} : now' = now + delay
    /\ result' = [ok |-> TRUE, body |-> response.body]
    /\ term' = "success"
    /\ pc' = "done"
    /\ UNCHANGED <<proxies, current_proxy, proxy_manager, auto_rotate, stats,
                   retries, max_retries, last_error, routed, response,
                   penalized, new_proxy, sent, call, block_detected, logger>>

\* a wait after 429 that does not grow with the attempts
BasicRateLimited_FlatBackoff ==
    /\ pc = "responded"
    /\ response.kind = "http" /\ response.status = 429
    /\ now' = now + RETRY_DELAY
    /\ retries' = retries + 1
    /\ pc' = "entry"
    /\ UNCHANGED <<proxies, current_proxy, proxy_manager, auto_rotate, stats,
                   max_retries, last_error, result, term, routed, response,
                   penalized, new_proxy, sent, call, block_detected, logger>>

\* lines 103-106: status 429, the wait and the self-call with retries + 1
BasicRateLimited ==
    /\ pc = "responded"
    /\ response.kind = "http" /\ response.status = 429
    /\ now' = now + RETRY_DELAY * (retries + 1)
    /\ retries' = retries + 1
    /\ pc' = "entry"
    /\ UNCHANGED <<proxies, current_proxy, proxy_manager, auto_rotate, stats,
                   max_retries, last_error, result, term, routed, response,
                   penalized, new_proxy, sent, call, block_detected, logger>>

\* lines 107-109: any other status
BasicOtherStatus ==
    /\ pc = "responded"
    /\ response.kind = "http" /\ response.status \notin {200, 429}
    /\ result' = None
    /\ term' = "http_error"
    /\ pc' = "done"
    /\ UNCHANGED <<proxies, current_proxy, proxy_manager, auto_rotate, stats,
                   now, retries, max_retries, last_error, routed, response,
                   penalized, new_proxy, sent, call, block_detected, logger>>

\* lines 111-115: a request exception with retries left, the wait and the
\* self-call with retries + 1
BasicExceptionRetry ==
    /\ pc = "responded"
    /\ response.kind = "RequestException"
    /\ retries < MAX_RETRIES
    /\ now' = now + RETRY_DELAY
    /\ retries' = retries + 1
    /\ pc' = "entry"
    /\ UNCHANGED <<proxies, current_proxy, proxy_manager, auto_rotate, stats,
                   max_retries, last_error, result, term, routed, response,
                   penalized, new_proxy, sent, call, block_detected, logger>>

\* lines 111-116: a request exception with no retries left
BasicExceptionGiveUp ==
    /\ pc = "responded"
    /\ response.kind = "RequestException"
    /\ ~(retries < MAX_RETRIES)
    /\ result' = None
    /\ term' = "request_failed"
    /\ pc' = "done"
    /\ UNCHANGED <<proxies, current_proxy, proxy_manager, auto_rotate, stats,
                   now, retries, max_retries, last_error, routed, response,
                   penalized, new_proxy, sent, call, block_detected, logger>>

NextBasic ==
    \/ BasicFetchPage
    \/ BasicMaxRetries
    \/ BasicRequest
    \/ BasicSuccess
    \/ BasicRateLimited
    \/ BasicOtherStatus
    \/ BasicExceptionRetry
    \/ BasicExceptionGiveUp

SpecBasic == InitBasic /\ [][NextBasic]_vars

\* what is left of the running basic fetch: twice the frames still allowed,
\* plus one while the test at the top of a frame is still to come
BasicMeasure ==
    2 * (MAX_RETRIES + 1 - retries) + (IF pc = "entry" THEN 1 ELSE 0)

BasicRunning == pc \in {"entry", "responded"}

BasicStep ==
    \/ BasicMaxRetries \/ BasicRequest \/ BasicSuccess \/ BasicRateLimited
    \/ BasicOtherStatus \/ BasicExceptionRetry \/ BasicExceptionGiveUp

\* the step on which a frame of the basic fetch calls fetch_page again
BasicRetry == pc = "responded" /\ pc' = "entry"

\* C30: the basic recursive fetch terminates after at most MAX_RETRIES + 1
\* requests: a running call can always take its next step, and every step
\* ends it or lowers a measure that is never negative. It calls itself again
\* only after status 429, having waited RETRY_DELAY * (retries + 1), and
\* after a request exception, each time with retries + 1; any other status
\* than 200 ends the call with failure and no further request.
C30_BasicFetchTerminates ==
    /\ [](BasicRunning => (ENABLED BasicStep /\ BasicMeasure >= 0))
    /\ [](sent <= MAX_RETRIES + 1)
    /\ [][BasicRunning
             => (pc' = "done"
                    \/ (BasicRunning' /\ BasicMeasure' < BasicMeasure))]_vars
    /\ [][BasicRetry
             => /\ retries' = retries + 1
                /\ \/ /\ response.kind = "http" /\ response.status = 429
                      /\ now' - now = RETRY_DELAY * (retries + 1)
                   \/ response.kind = "RequestException"]_vars
    /\ [][(pc = "responded" /\ response.kind = "http"
              /\ response.status \notin {200, 429})
             => (pc' = "done" /\ result' = None /\ sent' = sent)]_vars

\* C30 witness: a call that was rate limited on every request, waited
\* 5, 10, 15 and 20 seconds, and ended after MAX_RETRIES + 1 requests.
C30_Witness ==
    /\ pc = "done" /\ term = "max_retries"
    /\ sent = MAX_RETRIES + 1
    /\ retries = MAX_RETRIES + 1
    /\ response = HttpResponse(429, PageBody)
    /\ now = RETRY_DELAY * (1 + 2 + 3 + 4)
====
